---- MODULE Spec2Model ----
(***************************************************************************)
(* Model of the glucose-level service (src/main.py, src/models.py,         *)
(* src/schemas.py): the load_data CSV ingestion handler, step by step,     *)
(* running concurrently with create_glucose_level and the read handlers    *)
(* over one shared glucose_levels table.                                   *)
(*                                                                         *)
(* Conventions.  An optional value (Python None / SQL NULL) is a sequence  *)
(* of length 0, a present value x is <<x>>.  A file name or user id is a   *)
(* sequence of one-character strings.  A CSV field is a string.  A         *)
(* datetime is the number of minutes since 2023-01-01 00:00.  A float is   *)
(* a record [nan, v].  Python list indices are zero-based, as in the code. *)
(***************************************************************************)
EXTENDS Integers, Sequences, FiniteSets, TLC

VARIABLES
    db,        \* the committed rows of table glucose_levels
    load,      \* one record per load_data request: its locals and position
    created,   \* the bodies of the successful create_glucose_level responses
    create,    \* position of the create_glucose_level request
    resp       \* the response of the create or read request just served, if any

vars == <<db, load, created, create, resp>>

-----------------------------------------------------------------------------
(* Bounds of the model *)

MaxRows == 3       \* rows the csv reader yields to one request
MaxRowsRead == 4   \* rows the csv readers yield, over all requests

\* the load_data requests, which may run at the same time, next to one
\* create_glucose_level request and any number of read requests
Calls == 1..2

-----------------------------------------------------------------------------
(* Optional values *)

None == <<>>
Some(x) == <<x>>

-----------------------------------------------------------------------------
(* File names: str.endswith and str.split *)

Csv == <<".", "c", "s", "v">>

FileNames ==
    { <<"a">> \o <<".", "b">> \o Csv,       \* a.b.csv
      <<"b">> \o Csv,                       \* b.csv
      <<"b", ".", "t", "x", "t">> }         \* b.txt

EndsWithTrue(s, suf) == TRUE

EndsWith(s, suf) ==
    /\ Len(s) >= Len(suf)
    /\ SubSeq(s, Len(s) - Len(suf) + 1, Len(s)) = suf

\* s.split(ch)[0]: the text before the first ch, all of s when it holds none
SplitFirst(s, ch) ==
    LET dots == {i \in 1..Len(s) : s[i] = ch}
    IN  IF dots = {} THEN s
        ELSE SubSeq(s, 1, (CHOOSE i \in dots : \A j \in dots : i <= j) - 1)

-----------------------------------------------------------------------------
(* CSV rows.  The reader yields rows of this catalogue; a row is the       *)
(* sequence of its fields.                                                 *)

ExpectedWidth == 19

TimestampColumn == "GerÃ¤tezeitstempel"
GlucoseColumn == "Glukosewert-Verlauf mg/dL"

\* a row of n fields holding v1 at index p1 and v2 at index p2 (zero-based)
MkRow(n, p1, v1, p2, v2) ==
    [i \in 1..n |-> IF i = p1 + 1 THEN v1 ELSE IF i = p2 + 1 THEN v2 ELSE "x"]

\* the rows a file may open with, and the rows that may follow its header
HeadRows == { "Meta", "Empty", "Hdr", "HdrTs", "HdrGv", "V1" }
DataRows ==
    { "Meta", "Empty", "Short6", "V1", "V1b", "Nan", "Wide8", "BlankTs",
      "BlankGv", "BadTs", "BadGv" }

RowOf(r) ==
    CASE r = "Meta"    -> <<"Glukose-Werte", "Erstellt am">>
      [] r = "Empty"   -> <<>>
      [] r = "Hdr"     -> MkRow(ExpectedWidth, 4, TimestampColumn, 7, GlucoseColumn)
      [] r = "HdrTs"   -> MkRow(ExpectedWidth, 4, TimestampColumn, 7, "x")
      [] r = "HdrGv"   -> MkRow(ExpectedWidth, 4, "x", 7, GlucoseColumn)
      [] r = "V1"      -> MkRow(ExpectedWidth, 4, "01-01-2023 10:00", 7, "100")
      [] r = "V1b"     -> MkRow(ExpectedWidth, 4, "1-1-2023 10:00", 7, "100.0")
      [] r = "Nan"     -> MkRow(ExpectedWidth, 4, "01-01-2023 10:00", 7, "nan")
      [] r = "Wide8"   -> MkRow(8, 4, "01-01-2023 10:00", 7, "100")
      [] r = "BlankTs" -> MkRow(ExpectedWidth, 4, "", 7, "100")
      [] r = "BlankGv" -> MkRow(ExpectedWidth, 4, "01-01-2023 10:00", 7, "")
      [] r = "BadTs"   -> MkRow(ExpectedWidth, 4, "2023-01-01 10:00", 7, "100")
      [] r = "BadGv"   -> MkRow(ExpectedWidth, 4, "01-01-2023 10:00", 7, "abc")
      [] r = "Short6"  -> MkRow(6, 4, "01-01-2023 10:00", 7, "100")

\* list.index(x): the zero-based index of the first x, None for ValueError
Index(row, x) ==
    LET at == {i \in 1..Len(row) : row[i] = x}
    IN  IF at = {} THEN None
        ELSE Some((CHOOSE i \in at : \A j \in at : i <= j) - 1)

\* row[idx]: None stands for IndexError
RowGet(row, idx) == IF idx < Len(row) THEN Some(row[idx + 1]) ELSE None

-----------------------------------------------------------------------------
(* Field parsing *)

NaN == [nan |-> TRUE, v |-> 0]
Num(n) == [nan |-> FALSE, v |-> n]

\* datetime.strptime(s, "%d-%m-%Y %H:%M"): None stands for ValueError
StrpTime(s) ==
    CASE s = "01-01-2023 10:00" -> Some(600)
      [] s = "1-1-2023 10:00"   -> Some(600)
      [] s = "02-01-2023 10:00" -> Some(2040)
      [] OTHER                  -> None

\* float(s): None stands for ValueError
Float(s) ==
    CASE s = "100"   -> Some(Num(100))
      [] s = "100.0" -> Some(Num(100))
      [] s = "nan"   -> Some(NaN)
      [] OTHER       -> None

\* truthiness of a str
Truthy(s) == s # ""

-----------------------------------------------------------------------------
(* Storage: table glucose_levels behind a Session *)

\* the row INSERTed for a pending GlucoseLevel; src is the request that
\* wrote it (0 for create_glucose_level), kept for the properties below.
\* SQLite binds a NaN float as NULL and the columns are nullable.
StoreFloat(f) == IF f.nan THEN None ELSE Some(f)

ToRow(id, obj, src) ==
    [id |-> id,
     user_id |-> Some(obj.user_id),
     timestamp |-> Some(obj.timestamp),
     glucose_value |-> StoreFloat(obj.glucose_value),
     src |-> src]

\* the integer primary key SQLite gives the next row
NextId(t) ==
    IF t = {} THEN 1
    ELSE (CHOOSE i \in {x.id : x \in t} : \A x \in t : x.id <= i) + 1

RECURSIVE InsertUnique(_, _, _)
InsertUnique(t, pending, src) ==
    IF pending = <<>> THEN t
    ELSE LET o == Head(pending)
             dup == \E x \in t : /\ x.user_id = Some(o.user_id)
                                 /\ x.timestamp = Some(o.timestamp)
         IN  InsertUnique(IF dup THEN t ELSE t \cup {ToRow(NextId(t), o, src)},
                          Tail(pending), src)

\* Session.commit() that succeeds: every pending object becomes a row
RECURSIVE Insert(_, _, _)
Insert(t, pending, src) ==
    IF pending = <<>> THEN t
    ELSE Insert(t \cup {ToRow(NextId(t), Head(pending), src)}, Tail(pending), src)

SessionAddAutocommit(t, pending, obj, src) ==
    [table |-> Insert(t, <<obj>>, src), pending |-> pending]

\* Session.add(obj) under sessionmaker(autocommit=False, autoflush=False):
\* the object waits in the session, the table is untouched
SessionAdd(t, pending, obj, src) ==
    [table |-> t, pending |-> Append(pending, obj)]

SessionCloseFlush(t, pending, src) == Insert(t, pending, src)

\* get_db's finally: db.close() drops what was not committed
SessionClose(t, pending, src) == t

-----------------------------------------------------------------------------
(* Exceptions and responses *)

Response(code, detail) == [code |-> code, detail |-> detail]

HTTPException(code, detail) ==
    [type |-> "HTTPException", code |-> code, detail |-> detail]
Error(type) == [type |-> type, code |-> 0, detail |-> ""]

\* the classes `except Exception` catches: fastapi's HTTPException derives
\* from Exception like the built-in errors
ExceptionClasses ==
    { "HTTPException", "AttributeError", "IndexError", "ValueError",
      "UnicodeDecodeError", "OperationalError" }

\* what an exception raised inside load_data's outer try becomes
OuterExcept(e) ==
    IF e.type \in ExceptionClasses
    THEN HTTPException(500, "An error occurred while processing the file")
    ELSE e

\* the response FastAPI sends for an HTTPException leaving the handler
ToResponse(e) == Response(e.code, e.detail)

-----------------------------------------------------------------------------
(* What the rows read call for, computed apart from the handler *)

\* the field at a zero-based index, the empty string where the row has none
FieldAt(row, idx) == IF idx < Len(row) THEN row[idx + 1] ELSE ""

\* a row lacks one of the two resolved columns
LacksColumn(row, ti, gi) == Len(row) <= ti \/ Len(row) <= gi

\* both fields parse
WellFormed(row, ti, gi) ==
    /\ StrpTime(FieldAt(row, ti)) # None
    /\ Float(FieldAt(row, gi)) # None

\* the text of a file name before its first "."
RECURSIVE BeforeFirstDot(_)
BeforeFirstDot(s) ==
    IF s = <<>> \/ Head(s) = "." THEN <<>> ELSE <<Head(s)>> \o BeforeFirstDot(Tail(s))

ExpectedRecord(name, row, ti, gi) ==
    [user_id |-> BeforeFirstDot(name),
     timestamp |-> StrpTime(FieldAt(row, ti))[1],
     glucose_value |-> Float(FieldAt(row, gi))[1]]

-----------------------------------------------------------------------------
(* load_data *)

IdleLoad ==
    [pc |-> "idle", fname |-> <<>>, user_id |-> None, headers |-> None,
     timestamp_idx |-> None, glucose_value_idx |-> None, sess |-> <<>>,
     status |-> None,
     \* history, for the properties: rows the reader has yielded, whether the
     \* content was read, the records the rows read so far call for, whether
     \* a data row lacked a resolved column, whether a data row was blank or
     \* unparsable, the exception that ended the request
     nread |-> 0, opened |-> FALSE, expect |-> <<>>, short |-> FALSE,
     bad |-> FALSE, exc |-> ""]

Init ==
    /\ db = {}
    /\ load = [c \in Calls |-> IdleLoad]
    /\ created = {}
    /\ create = "idle"
    /\ resp = None

RECURSIVE SumRead(_)
SumRead(cs) ==
    IF cs = {} THEN 0
    ELSE LET c == CHOOSE x \in cs : TRUE IN load[c].nread + SumRead(cs \ {c})

\* rows read so far by all requests
RowsRead == SumRead(Calls)

\* an exception raised inside the outer try ends the request; get_db closes
\* the session
FailInTry(c, l, e) ==
    /\ load' = [load EXCEPT ![c] = [l EXCEPT !.pc = "done",
                                            !.status = Some(ToResponse(OuterExcept(e))),
                                            !.exc = e.type,
                                            !.sess = <<>>]]
    /\ db' = SessionClose(db, l.sess, c)

\* main.py 82-87: the extension check and the user id
LoadBegin(c, name) ==
    /\ resp = None
    /\ load[c].pc = "idle"
    /\ IF c = 1 THEN TRUE ELSE load[c - 1].pc # "idle"
    /\ IF ~EndsWith(name, Csv)
       THEN /\ load' = [load EXCEPT ![c].pc = "done",
                                    ![c].fname = name,
                                    ![c].status = Some(ToResponse(
                                        HTTPException(400, "Unsupported file format")))]
            /\ db' = SessionClose(db, load[c].sess, c)
       ELSE /\ load' = [load EXCEPT ![c].pc = "read",
                                    ![c].fname = name,
                                    ![c].user_id = Some(SplitFirst(name, "."))]
            /\ db' = db
    /\ resp' = None
    /\ UNCHANGED <<created, create>>

\* main.py 89-93: read the upload and decode it
LoadRead(c, decodes) ==
    /\ resp = None
    /\ load[c].pc = "read"
    /\ LET l == [load[c] EXCEPT !.opened = TRUE]
       IN  IF decodes
           THEN /\ load' = [load EXCEPT ![c] = [l EXCEPT !.pc = "scan"]]
                /\ db' = db
           ELSE FailInTry(c, l, Error("UnicodeDecodeError"))
    /\ resp' = None
    /\ UNCHANGED <<created, create>>

\* main.py 95-99: one turn of the header scan; r = "EOF" when the reader is exhausted
LoadScan(c, r) ==
    /\ resp = None
    /\ load[c].pc = "scan"
    /\ r # "EOF" => load[c].nread < MaxRows /\ RowsRead < MaxRowsRead
    /\ IF r = "EOF"
       THEN load' = [load EXCEPT ![c].pc = "cols"]
       ELSE LET row == RowOf(r)
            IN  IF Len(row) = ExpectedWidth
                THEN load' = [load EXCEPT ![c].pc = "cols",
                                          ![c].headers = Some(row),
                                          ![c].nread = @ + 1]
                ELSE load' = [load EXCEPT ![c].nread = @ + 1]
    /\ db' = db
    /\ resp' = None
    /\ UNCHANGED <<created, create>>

\* main.py 101-106: resolve the two columns
LoadCols(c) ==
    /\ resp = None
    /\ load[c].pc = "cols"
    /\ LET l == load[c]
       IN  IF l.headers = None
           THEN FailInTry(c, l, Error("AttributeError"))
           ELSE LET ti == Index(l.headers[1], TimestampColumn)
                    gi == Index(l.headers[1], GlucoseColumn)
                IN  IF ti = None \/ gi = None
                    THEN FailInTry(c, l, HTTPException(400,
                                       "Required columns not found in CSV file"))
                    ELSE /\ load' = [load EXCEPT ![c].pc = "rows",
                                                 ![c].timestamp_idx = ti,
                                                 ![c].glucose_value_idx = gi]
                         /\ db' = db
    /\ resp' = None
    /\ UNCHANGED <<created, create>>

\* main.py 108-125: one turn of the row loop; r = "EOF" ends it
LoadRow(c, r) ==
    /\ resp = None
    /\ load[c].pc = "rows"
    /\ r # "EOF" => load[c].nread < MaxRows /\ RowsRead < MaxRowsRead
    /\ IF r = "EOF"
       THEN /\ load' = [load EXCEPT ![c].pc = "commit"]
            /\ db' = db
       ELSE LET row == RowOf(r)
                ti == load[c].timestamp_idx[1]
                gi == load[c].glucose_value_idx[1]
                l == [load[c] EXCEPT
                        !.nread = @ + 1,
                        !.short = @ \/ LacksColumn(row, ti, gi),
                        !.bad = @ \/ (~LacksColumn(row, ti, gi) /\ ~WellFormed(row, ti, gi)),
                        !.expect = IF WellFormed(row, ti, gi)
                                   THEN Append(@, ExpectedRecord(load[c].fname, row, ti, gi))
                                   ELSE @]
                timestamp_str == RowGet(row, ti)
                glucose_value_str == RowGet(row, gi)
            IN  IF timestamp_str = None \/ glucose_value_str = None
                THEN FailInTry(c, l, Error("IndexError"))
                ELSE IF Truthy(timestamp_str[1]) /\ Truthy(glucose_value_str[1])
                THEN LET timestamp == StrpTime(timestamp_str[1])
                         glucose_value == Float(glucose_value_str[1])
                     IN  IF timestamp = None \/ glucose_value = None
                         THEN \* except ValueError: continue
                              /\ load' = [load EXCEPT ![c] = l]
                              /\ db' = db
                         ELSE LET obj == [user_id |-> l.user_id[1],
                                          timestamp |-> timestamp[1],
                                          glucose_value |-> glucose_value[1]]
                                  s == SessionAdd(db, l.sess, obj, c)
                              IN  /\ load' = [load EXCEPT ![c] = [l EXCEPT !.sess = s.pending]]
                                  /\ db' = s.table
                ELSE /\ load' = [load EXCEPT ![c] = l]
                     /\ db' = db
    /\ resp' = None
    /\ UNCHANGED <<created, create>>

\* main.py 126-128: the commit, which the database may refuse
LoadCommit(c, commits) ==
    /\ resp = None
    /\ load[c].pc = "commit"
    /\ IF commits
       THEN /\ db' = Insert(db, load[c].sess, c)
            /\ load' = [load EXCEPT ![c].pc = "done",
                                    ![c].sess = <<>>,
                                    ![c].status = Some(Response(200, "Data loaded successfully"))]
       ELSE FailInTry(c, load[c], Error("OperationalError"))
    /\ resp' = None
    /\ UNCHANGED <<created, create>>

-----------------------------------------------------------------------------
(* Responses built from rows *)

\* the four columns of a row, as a response carries them
Columns(x) ==
    [id |-> x.id, user_id |-> x.user_id, timestamp |-> x.timestamp,
     glucose_value |-> x.glucose_value]

\* GlucoseLevelResponse (orm_mode): id, user_id, timestamp and glucose_value
\* are required, so a row with a NULL fails the response validation
Validates(x) ==
    /\ x.user_id # None
    /\ x.timestamp # None
    /\ x.glucose_value # None

Users == { <<"a">>, <<"b">> }

-----------------------------------------------------------------------------
(* create_glucose_level *)

DefaultQuery ==
    [start |-> None, stop |-> None, page |-> 1, page_size |-> 10,
     sort |-> "timestamp.desc"]

\* the response to a request other than load_data
Answer(op, user_id, id, q, code, body) ==
    Some([op |-> op, user_id |-> user_id, id |-> id, q |-> q, code |-> code,
          body |-> body])

\* request bodies GlucoseLevelCreate accepts (a JSON NaN is a float)
CreateBodies ==
    [user_id : {<<"a">>}, timestamp : {2040}, glucose_value : {Num(100), NaN}]

\* main.py 138-156.  The table has no constraint a new row can break, so the
\* IntegrityError branch is not taken; a refused commit is an OperationalError.
\* The refreshed object is returned through GlucoseLevelResponse.
CreateGlucoseLevel(glucose_level, commits) ==
    /\ resp = None
    /\ create = "idle"
    /\ create' = "done"
    /\ IF commits
       THEN LET id == NextId(db)
                table == Insert(db, <<glucose_level>>, 0)
                db_glucose_level == CHOOSE x \in table : x.id = id
            IN  /\ db' = table
                /\ IF Validates(db_glucose_level)
                   THEN /\ created' = created \cup {Columns(db_glucose_level)}
                        /\ resp' = Answer("create_glucose_level", glucose_level.user_id,
                                          id, DefaultQuery, 200, {Columns(db_glucose_level)})
                   ELSE /\ created' = created
                        /\ resp' = Answer("create_glucose_level", glucose_level.user_id,
                                          id, DefaultQuery, 500, {})
       ELSE /\ db' = db
            /\ created' = created
            /\ resp' = Answer("create_glucose_level", glucose_level.user_id, 0,
                              DefaultQuery, 500, {})
    /\ UNCHANGED load

-----------------------------------------------------------------------------
(* get_glucose_levels, get_glucose_level, export_data *)

Queries ==
    { DefaultQuery,
      [start |-> None, stop |-> Some(600), page |-> 1, page_size |-> 1,
       sort |-> "timestamp.asc"],
      [start |-> Some(600), stop |-> Some(600), page |-> 2, page_size |-> 1,
       sort |-> "foo"] }

\* 'desc' in sort
Descending(sort) == sort \in {"timestamp.desc"}

\* sort.replace('.asc', '').replace('.desc', '')
SortColumn(sort) ==
    CASE sort \in {"timestamp.desc", "timestamp.asc"} -> "timestamp"
      [] OTHER -> sort

\* hasattr(GlucoseLevel, column)
HasAttr(column) == column \in {"id", "user_id", "timestamp", "glucose_value"}

\* the value of the sort column, for the columns the queries sort by
SortKey(x, column) == IF column = "id" THEN x.id ELSE x.timestamp[1]

\* x may come before y in the result
MayPrecede(x, y, sort) ==
    \/ ~HasAttr(SortColumn(sort))
    \/ IF Descending(sort)
       THEN SortKey(x, SortColumn(sort)) >= SortKey(y, SortColumn(sort))
       ELSE SortKey(x, SortColumn(sort)) <= SortKey(y, SortColumn(sort))

Min(a, b) == IF a <= b THEN a ELSE b

\* the filtered rows
Matching(t, user_id, q) ==
    { x \in t : /\ x.user_id = Some(user_id)
                /\ q.start = None \/ x.timestamp[1] >= q.start[1]
                /\ q.stop = None \/ x.timestamp[1] <= q.stop[1] }

\* the sets of rows query.offset(offset).limit(page_size).all() may return:
\* rows of equal sort key come in an order the database chooses
PagesOf(m, q) ==
    LET offset == (q.page - 1) * q.page_size
    IN  { s \in SUBSET m :
            \E skipped \in SUBSET (m \ s) :
               /\ Cardinality(skipped) = Min(offset, Cardinality(m))
               /\ Cardinality(s) = Min(q.page_size, Cardinality(m) - Cardinality(skipped))
               /\ \A x \in skipped : \A y \in m \ skipped : MayPrecede(x, y, q.sort)
               /\ \A x \in s : \A y \in m \ (skipped \cup s) : MayPrecede(x, y, q.sort) }

\* main.py 33-65
GetGlucoseLevels(user_id, q) ==
    /\ resp = None
    /\ \E levels \in PagesOf(Matching(db, user_id, q), q) :
          resp' = IF levels = {}
                  THEN Answer("get_glucose_levels", user_id, 0, q, 404, {})
                  ELSE IF \A x \in levels : Validates(x)
                  THEN Answer("get_glucose_levels", user_id, 0, q, 200,
                              {Columns(x) : x \in levels})
                  ELSE Answer("get_glucose_levels", user_id, 0, q, 500, {})
    /\ UNCHANGED <<db, load, created, create>>

\* main.py 67-75
GetGlucoseLevel(id) ==
    /\ resp = None
    /\ LET found == {x \in db : x.id = id}
       IN  resp' = IF found = {}
                   THEN Answer("get_glucose_level", <<>>, id, DefaultQuery, 404, {})
                   ELSE IF \A x \in found : Validates(x)
                   THEN Answer("get_glucose_level", <<>>, id, DefaultQuery, 200,
                               {Columns(x) : x \in found})
                   ELSE Answer("get_glucose_level", <<>>, id, DefaultQuery, 500, {})
    /\ UNCHANGED <<db, load, created, create>>

\* main.py 158-178
ExportData(user_id) ==
    /\ resp = None
    /\ LET results == {x \in db : x.user_id = Some(user_id)}
       IN  resp' = IF results = {}
                   THEN Answer("export_data", user_id, 0, DefaultQuery, 404, {})
                   ELSE Answer("export_data", user_id, 0, DefaultQuery, 200,
                               {Columns(x) : x \in results})
    /\ UNCHANGED <<db, load, created, create>>

\* the response of the create or read request goes out to the client
Return ==
    /\ resp # None
    /\ resp' = None
    /\ UNCHANGED <<db, load, created, create>>

-----------------------------------------------------------------------------

\* A request is served in one step or, for load_data, in the steps above;
\* the response of a create or read request is sent before the next step.
Next ==
    \/ \E c \in Calls : \E name \in FileNames : LoadBegin(c, name)
    \/ \E c \in Calls : \E decodes \in BOOLEAN : LoadRead(c, decodes)
    \/ \E c \in Calls : \E r \in HeadRows \cup {"EOF"} : LoadScan(c, r)
    \/ \E c \in Calls : LoadCols(c)
    \/ \E c \in Calls : \E r \in DataRows \cup {"EOF"} : LoadRow(c, r)
    \/ \E c \in Calls : \E commits \in BOOLEAN : LoadCommit(c, commits)
    \/ \E g \in CreateBodies : \E commits \in BOOLEAN : CreateGlucoseLevel(g, commits)
    \/ \E u \in Users : \E q \in Queries : GetGlucoseLevels(u, q)
    \/ \E id \in 1..NextId(db) : GetGlucoseLevel(id)
    \/ \E u \in Users : ExportData(u)
    \/ Return

Spec == Init /\ [][Next]_vars

-----------------------------------------------------------------------------
(* Properties *)

Done(c) == load[c].pc = "done"
Status(c) == load[c].status[1]
Succeeded(c) == Done(c) /\ Status(c).code = 200

\* the rows request c has made visible in the table
RowsOf(c) == {x \in db : x.src = c}

\* the commit of request c was not refused by the database
CommitNotRefused(c) == load[c].exc # "OperationalError"

\* a file name ends with ".csv"
HasCsvExtension(s) ==
    /\ Len(s) >= 4
    /\ s[Len(s) - 3] = "." /\ s[Len(s) - 2] = "c"
    /\ s[Len(s) - 1] = "s" /\ s[Len(s)] = "v"

\* the header scan of request c ended with no header row, or with one that
\* lacks a required column name
NoColumns(c) ==
    /\ Done(c) /\ HasCsvExtension(load[c].fname)
    /\ load[c].opened /\ load[c].exc # "UnicodeDecodeError"
    /\ \/ load[c].headers = None
       \/ \A i \in 1..Len(load[c].headers[1]) : load[c].headers[1][i] # TimestampColumn
       \/ \A i \in 1..Len(load[c].headers[1]) : load[c].headers[1][i] # GlucoseColumn

\* C1: a finished load_data request whose file is named *.csv and has a
\* 19-field header holding both column names has persisted exactly one
\* record per well-formed row read after the header, each with the user_id
\* that is the file name's text before its first ".", and nothing else.
C1_OneRecordPerValidRow ==
    \A c \in Calls :
        (Done(c) /\ load[c].timestamp_idx # None /\ CommitNotRefused(c))
            => /\ Cardinality(RowsOf(c)) = Len(load[c].expect)
               /\ \A x \in RowsOf(c) : x.user_id = Some(BeforeFirstDot(load[c].fname))

\* C2: a finished load_data request that met a data row too short to hold
\* a resolved column has skipped it: the request succeeded and persisted
\* the well-formed rows around it.
C2_ShortRowSkipped ==
    \A c \in Calls :
        (Done(c) /\ load[c].short /\ CommitNotRefused(c))
            => /\ Status(c).code = 200
               /\ Cardinality(RowsOf(c)) = Len(load[c].expect)

\* C3: a load_data request whose file has no 19-field row, or whose header
\* lacks a required column name, ends with the client error 400 "Required
\* columns not found in CSV file", not with the server error 500.
C3_MissingColumnsIs400 ==
    \A c \in Calls :
        NoColumns(c) =>
            Status(c) = Response(400, "Required columns not found in CSV file")

\* C4: a finished load_data request that met a data row with a blank or
\* unparsable timestamp or value has not been aborted: it succeeded and
\* persisted every well-formed row of the file.
C4_BadRowDoesNotAbort ==
    \A c \in Calls :
        (Done(c) /\ load[c].bad /\ CommitNotRefused(c))
            => /\ Status(c).code = 200
               /\ Cardinality(RowsOf(c)) = Len(load[c].expect)

\* C5: a load_data request that ended in a fatal outcome has made no record
\* visible, whatever it had added to its session.
C5_FatalPersistsNothing ==
    \A c \in Calls : (Done(c) /\ Status(c).code # 200) => RowsOf(c) = {}

\* a request failed at the commit with accepted rows in its session, and an
\* export of its user's records was served afterwards
C5_Witness ==
    \E c \in Calls :
        /\ Done(c) /\ Status(c).code = 500
        /\ load[c].exc = "OperationalError" /\ Len(load[c].expect) > 0
        /\ resp # None /\ resp[1].op = "export_data"
        /\ Some(resp[1].user_id) = load[c].user_id

\* C6: a load_data request whose file name does not end with ".csv" ends at
\* once with 400 "Unsupported file format": the content is never read, no
\* row is parsed and no record is persisted.
C6_BadExtensionRejectedFirst ==
    \A c \in Calls :
        (load[c].pc # "idle" /\ ~HasCsvExtension(load[c].fname))
            => /\ Done(c)
               /\ Status(c) = Response(400, "Unsupported file format")
               /\ ~load[c].opened
               /\ load[c].nread = 0 /\ load[c].headers = None
               /\ RowsOf(c) = {}

\* a request for b.txt has been answered 400
C6_Witness ==
    \E c \in Calls :
        /\ Done(c)
        /\ load[c].fname = <<"b", ".", "t", "x", "t">>
        /\ Status(c).code = 400

\* the rows of request c that the read just served has returned
Seen(c) ==
    IF resp = None THEN {}
    ELSE {x \in RowsOf(c) : Columns(x) \in resp[1].body}

\* C7: the records of a load_data request become visible together: the
\* table holds none of them until the request has succeeded and all of them
\* afterwards, and an export served at any moment shows none or all.
C7_AllOrNothingVisible ==
    \A c \in Calls :
        /\ RowsOf(c) # {} =>
              /\ Succeeded(c)
              /\ Cardinality(RowsOf(c)) = Len(load[c].expect)
        /\ (resp # None /\ resp[1].op = "export_data"
                /\ Some(resp[1].user_id) = load[c].user_id)
              => \/ Seen(c) = {}
                 \/ /\ Succeeded(c)
                    /\ Cardinality(Seen(c)) = Len(load[c].expect)

\* an export shows both records of a finished request while the other
\* request is inside its row loop
C7_Witness ==
    \E c, d \in Calls :
        /\ c # d
        /\ Succeeded(c) /\ Len(load[c].expect) = 2
        /\ load[d].pc = "rows"
        /\ resp # None /\ resp[1].op = "export_data"
        /\ Cardinality(Seen(c)) = 2

\* C8: once create_glucose_level has answered with a record, the answer to
\* get_glucose_level for its id is 200 with that record, and the answer to
\* get_glucose_levels for its user with default parameters is 200 with a
\* non-empty list.
C8_CreatedIsReadable ==
    \A g \in created :
        /\ (resp # None /\ resp[1].op = "get_glucose_level" /\ resp[1].id = g.id)
              => (resp[1].code = 200 /\ resp[1].body = {g})
        /\ (resp # None /\ resp[1].op = "get_glucose_levels"
                /\ Some(resp[1].user_id) = g.user_id /\ resp[1].q = DefaultQuery)
              => (resp[1].code = 200 /\ resp[1].body # {})

\* C9: every persisted record has a user_id, a timestamp and a
\* glucose_value that are not NULL.
C9_NoNullColumns ==
    \A x \in db :
        /\ x.user_id # None
        /\ x.timestamp # None
        /\ x.glucose_value # None

\* C10: load_data does not deduplicate: a request that succeeded has
\* persisted one record per well-formed row even where rows repeat a
\* timestamp, and two requests that succeeded on the same rows for the same
\* user have persisted twice that many records.
C10_NoDeduplication ==
    /\ \A c \in Calls :
          Succeeded(c) => Cardinality(RowsOf(c)) = Len(load[c].expect)
    /\ \A c, d \in Calls :
          (c # d /\ Succeeded(c) /\ Succeeded(d) /\ load[c].expect = load[d].expect)
             => Cardinality(RowsOf(c) \cup RowsOf(d)) = 2 * Len(load[c].expect)

\* the same one-row file was ingested twice and its user now has two records
\* of that timestamp
C10_Witness ==
    \E c, d \in Calls :
        /\ c # d
        /\ Succeeded(c) /\ Succeeded(d)
        /\ load[c].fname = load[d].fname
        /\ load[c].expect = load[d].expect
        /\ Len(load[c].expect) = 1
        /\ Cardinality({x \in db : x.user_id = load[c].user_id
                                   /\ x.timestamp = Some(load[c].expect[1].timestamp)}) = 2

====
